---- MODULE Spec2Model ----
(***************************************************************************)
(* Model of the Discord presence plugin (src/src/lib.rs): the startup      *)
(* routine startup_client, the per-tick routine check_activity_changed,    *)
(* the lifecycle callbacks registered on the client, and an application    *)
(* system that assigns the public fields of ActivityState (as              *)
(* src/examples/game.rs does).                                             *)
(*                                                                         *)
(* Option<T> is modelled as a sequence: None is <<>>, Some(v) is <<v>>.    *)
(***************************************************************************)
EXTENDS Integers, Sequences, FiniteSets, TLC

\* ---------------------------------------------------------------- bounds

\* most mutable accesses to the payload counted between two sync runs
MaxMuts == 2
\* most lifecycle events the connection emits in a run
MaxEvents == 2
\* most drains in a row with no push between them
MaxDrains == 2

\* ------------------------------------------------------------- data types

None == <<>>
Some(v) == <<v>>

\* the closed set of lifecycle event kinds (Event::VARIANTS), in order
EventVariants == <<"Ready", "Error">>

EventKinds == {EventVariants[i] : i \in 1..Len(EventVariants)}

\* wall-clock readings at startup, in milliseconds relative to the epoch
ClockReadings == {-1500, 2750}

\* a variant that takes a clock before the epoch for the epoch
duration_since_epoch_or_zero(now) ==
    [ok |-> TRUE, ms |-> IF now < 0 THEN 0 ELSE now]

\* SystemTime::now().duration_since(UNIX_EPOCH): Err when the clock is before
\* the epoch, else the duration (here in milliseconds)
duration_since_epoch(now) ==
    IF now < 0 THEN [ok |-> FALSE, ms |-> 0] ELSE [ok |-> TRUE, ms |-> now]

\* a variant that takes the milliseconds
as_millis(ms) == ms

\* Duration::as_secs: the whole seconds of a duration
as_secs(ms) == ms \div 1000

\* the fields of the payload that are sent to the service
Fields == {"details", "state", "instance", "timestamps"}

\* values an application assigns to the public fields of ActivityState
FieldValues(f) ==
    CASE f = "details"  -> {None, Some("Hello World"), Some("Goodbye")}
      [] f = "state"    -> {None, Some("This is state")}
      [] OTHER          -> {}

\* the fields the application systems assign
AppFields == {"details", "state"}

\* ActivityState::default(): every optional field None
ActivityStateDefault == [f \in Fields |-> None]

\* the external Activity with nothing set
ActivityNew == [f \in Fields |-> None]

\* From<ActivityState> for Activity: every populated field is copied, every
\* unpopulated field is left at the external default (unset); the events
\* handle is not part of the update
into(st) ==
    [f \in Fields |-> IF st[f] # None THEN st[f] ELSE ActivityNew[f]]

\* ------------------------------------------------------------------ state

VARIABLES
    config,     \* RPCConfig: [app_id, show_time]
    clock,      \* the wall clock reading startup_client took, None if it took none
    pc,         \* position of startup_client: seed, register, start, done, panicked
    regIdx,     \* index of the next event kind to register in the loop
    handlers,   \* client: number of callbacks registered per event kind
    started,    \* client: number of start() invocations
    startedWith,\* the kinds that had a callback when start() was invoked
    startResult,\* what start() returned: none (not invoked), Ok or Err
    activity,   \* ActivityState payload
    changed,    \* the resource counts as changed for check_activity_changed
    muts,       \* mutable accesses to the payload since the last sync run
    syncDone,   \* check_activity_changed has run in the current tick
    ran,        \* check_activity_changed has run at least once
    lastRun,    \* last sync run: calls issued, their result and Activity, errors
                \* reported, and n, the mutable accesses it found since the run before
    failedPending, \* the latest call failed and the payload was not written since
    kept,       \* fields populated in an earlier call and not assigned None since
    events,     \* the shared queue ActivityState.events
    lock,       \* holder of the queue's mutex, 0 when free
    cbPc,       \* position of each background callback invocation
    cbEv,       \* the event kind each invocation carries
    arrival,    \* event kinds in the order their pushes acquired the lock
    emitted,    \* lifecycle events emitted so far
    consumed,   \* every event a drain has returned, in the order returned
    drainLog    \* what the drains since the latest push returned, oldest first

vars == <<config, clock, pc, regIdx, handlers, started, startedWith, startResult, activity,
          changed, muts, syncDone, ran, lastRun, failedPending, kept, events, lock,
          cbPc, cbEv, arrival, emitted, consumed, drainLog>>

clientVars == <<handlers, started, startedWith, startResult>>
syncVars == <<changed, muts, syncDone, ran, lastRun, failedPending, kept>>
queueVars == <<events, lock, cbPc, cbEv, arrival, emitted, consumed, drainLog>>

\* the background threads that may run callbacks at the same time
Threads == {1, 2}

NoRun(n) == [issued |-> 0, result |-> "none", reported |-> 0, act |-> None, n |-> n]

\* RPCPlugin::build: the systems are added, the config, a default
\* ActivityState (newly added, so it counts as changed) and the client are
\* inserted
Init ==
    /\ config \in [app_id : {"425407036495495169"}, show_time : BOOLEAN]
    /\ clock = None
    /\ pc = "seed"
    /\ regIdx = 1
    /\ handlers = [k \in EventKinds |-> 0]
    /\ started = 0
    /\ startedWith = {}
    /\ startResult = "none"
    /\ activity = ActivityStateDefault
    /\ changed = TRUE
    /\ muts = 0
    /\ syncDone = FALSE
    /\ ran = FALSE
    /\ lastRun = NoRun(0)
    /\ failedPending = FALSE
    /\ kept = {}
    /\ events = <<>>
    /\ lock = 0
    /\ cbPc = [t \in Threads |-> "idle"]
    /\ cbEv = [t \in Threads |-> EventVariants[1]]
    /\ arrival = <<>>
    /\ emitted = 0
    /\ consumed = <<>>
    /\ drainLog = <<>>

\* ---------------------------------------------------------- startup_client

\* lines 93-103: with show_time the start timestamp is seeded through a
\* mutable access; a clock before the epoch panics
startup_seed ==
    /\ pc = "seed"
    /\ IF config.show_time
       THEN \E now \in ClockReadings :
            LET d == duration_since_epoch(now) IN
            /\ clock' = Some(now)
            /\ IF d.ok
               THEN /\ activity' = [activity EXCEPT !["timestamps"] =
                           Some([start |-> Some(as_secs(d.ms)), end |-> None])]
                    /\ changed' = TRUE
                    /\ muts' = muts + 1
                    /\ pc' = "register"
               ELSE /\ pc' = "panicked"
                    /\ UNCHANGED <<activity, changed, muts>>
       ELSE /\ pc' = "register"
            /\ UNCHANGED <<clock, activity, changed, muts>>
    /\ UNCHANGED <<config, regIdx, clientVars, syncDone, ran, lastRun,
                   failedPending, kept, queueVars>>

\* a variant whose loop stops one kind short
variants_left_short == regIdx < Len(EventVariants)

\* line 105: the loop over Event::VARIANTS has kinds left
variants_left == regIdx <= Len(EventVariants)

\* lines 105-114: one callback per event kind, in the order of VARIANTS
startup_register ==
    /\ pc = "register"
    /\ variants_left
    /\ handlers' = [handlers EXCEPT ![EventVariants[regIdx]] = @ + 1]
    /\ regIdx' = regIdx + 1
    /\ UNCHANGED <<config, clock, pc, started, startedWith, startResult, activity,
                   syncVars, queueVars>>

\* the loop is over
startup_registered ==
    /\ pc = "register"
    /\ ~variants_left
    /\ pc' = "start"
    /\ UNCHANGED <<config, clock, regIdx, clientVars, activity, syncVars, queueVars>>

\* a variant that unwraps the result of start()
startup_start_checked ==
    /\ pc = "start"
    /\ \E res \in {"Ok", "Err"} :
          /\ startResult' = res
          /\ pc' = IF res = "Err" THEN "panicked" ELSE "done"
    /\ started' = started + 1
    /\ startedWith' = {k \in EventKinds : handlers[k] > 0}
    /\ UNCHANGED <<config, clock, regIdx, handlers, activity, syncVars, queueVars>>

\* a variant that never starts the client
startup_start_skipped ==
    /\ pc = "start"
    /\ pc' = "done"
    /\ UNCHANGED <<config, clock, regIdx, clientVars, activity, syncVars, queueVars>>

\* lines 116-117: the client is started; start() may succeed or fail and
\* its result is dropped
startup_start ==
    /\ pc = "start"
    /\ \E res \in {"Ok", "Err"} : startResult' = res
    /\ started' = started + 1
    /\ startedWith' = {k \in EventKinds : handlers[k] > 0}
    /\ pc' = "done"
    /\ UNCHANGED <<config, clock, regIdx, handlers, activity, syncVars, queueVars>>

\* ------------------------------------------------- application (game.rs)

\* a variant that marks the resource changed only when the value differs
update_presence_if_neq(f, v) ==
    /\ pc = "done"
    /\ muts < MaxMuts
    /\ activity' = [activity EXCEPT ![f] = v]
    /\ changed' = (changed \/ activity[f] # v)
    /\ muts' = muts + 1
    /\ kept' = IF v = None THEN kept \ {f} ELSE kept
    /\ failedPending' = FALSE
    /\ UNCHANGED <<config, clock, pc, regIdx, clientVars, syncDone, ran, lastRun,
                   queueVars>>

\* update_presence, one assignment: a write through ResMut<ActivityState>
\* (DerefMut) marks the resource changed, whatever value is written
update_presence(f, v) ==
    /\ pc = "done"
    /\ muts < MaxMuts
    /\ activity' = [activity EXCEPT ![f] = v]
    /\ changed' = TRUE
    /\ muts' = muts + 1
    /\ kept' = IF v = None THEN kept \ {f} ELSE kept
    /\ failedPending' = FALSE
    /\ UNCHANGED <<config, clock, pc, regIdx, clientVars, syncDone, ran, lastRun,
                   queueVars>>

\* ------------------------------------------------- check_activity_changed

\* a variant that has only is_added(): true on the first run alone
is_changed_added_only == ~ran

\* a variant that runs the update on every tick
is_changed_always == TRUE

\* a variant that ignores that a newly added resource counts as changed
is_changed_not_added == changed /\ (ran \/ muts > 0)

\* line 122: activity.is_changed()
is_changed == changed

\* a variant whose closure sends only the fields that differ from the call
\* of the run before
set_activity_closure_delta(builder) ==
    [f \in Fields |->
        IF lastRun.issued = 1 /\ lastRun.act[1][f] = activity[f]
        THEN builder[f]
        ELSE into(activity)[f]]

\* a variant whose closure converts a default ActivityState
set_activity_closure_default(builder) == into(ActivityStateDefault)

\* line 123: the closure handed to set_activity drops its argument and
\* returns the payload converted to an Activity
set_activity_closure(builder) == into(activity)

\* a variant that leaves the resource changed after a failed call
changed_after_run_retry(res) == res = "Err"

\* whether the resource still counts as changed for this system after a run
\* that ended with the given set_activity result ("none": no call)
changed_after_run(res) == FALSE

\* a variant that drops the error
report_silent(res) == 0

\* lines 125-127: the number of error! reports for a set_activity result
report(res) == IF res = "Err" THEN 1 ELSE 0

\* a variant that empties the queue on every run
check_activity_changed_draining ==
    /\ pc = "done"
    /\ ~syncDone
    /\ lock = 0
    /\ IF is_changed
       THEN \E res \in {"Ok", "Err"} :
              LET act == set_activity_closure(ActivityNew)
                  pop == {f \in Fields : act[f] # None}
              IN /\ lastRun' = [issued |-> 1, result |-> res,
                                reported |-> report(res),
                                act |-> Some(act), n |-> muts]
                 /\ failedPending' = (res = "Err")
                 /\ kept' = kept \cup pop
                 /\ changed' = changed_after_run(res)
       ELSE /\ lastRun' = NoRun(muts)
            /\ changed' = changed_after_run("none")
            /\ UNCHANGED <<failedPending, kept>>
    /\ muts' = 0
    /\ syncDone' = TRUE
    /\ ran' = TRUE
    /\ events' = <<>>
    /\ consumed' = consumed \o events
    /\ UNCHANGED <<config, clock, pc, regIdx, clientVars, activity, lock, cbPc,
                   cbEv, arrival, emitted, drainLog>>

\* lines 121-129: one run of the system in the Update schedule
check_activity_changed ==
    /\ pc = "done"
    /\ ~syncDone
    /\ IF is_changed
       THEN \E res \in {"Ok", "Err"} :
              LET act == set_activity_closure(ActivityNew)
                  pop == {f \in Fields : act[f] # None}
              IN /\ lastRun' = [issued |-> 1, result |-> res,
                                reported |-> report(res),
                                act |-> Some(act), n |-> muts]
                 /\ failedPending' = (res = "Err")
                 /\ kept' = kept \cup pop
                 /\ changed' = changed_after_run(res)
       ELSE /\ lastRun' = NoRun(muts)
            /\ changed' = changed_after_run("none")
            /\ UNCHANGED <<failedPending, kept>>
    /\ muts' = 0
    /\ syncDone' = TRUE
    /\ ran' = TRUE
    /\ UNCHANGED <<config, clock, pc, regIdx, clientVars, activity, queueVars>>

\* a variant that clears the change trackers when the tick ends
next_tick_clearing ==
    /\ pc = "done"
    /\ syncDone
    /\ syncDone' = FALSE
    /\ changed' = FALSE
    /\ UNCHANGED <<config, clock, pc, regIdx, clientVars, activity, muts,
                   ran, lastRun, failedPending, kept, queueVars>>

\* the Update schedule has run all its systems: the next tick begins, with
\* the writes made after the sync run still waiting for the next run
next_tick ==
    /\ pc = "done"
    /\ syncDone
    /\ syncDone' = FALSE
    /\ UNCHANGED <<config, clock, pc, regIdx, clientVars, activity, changed, muts,
                   ran, lastRun, failedPending, kept, queueVars>>

\* ---------------------------------------------------- lifecycle callbacks

\* the connection, once started with success, emits an event of kind k on
\* background thread t and invokes the callback registered for k
emit(t, k) ==
    /\ started > 0
    /\ startResult = "Ok"
    /\ handlers[k] > 0
    /\ cbPc[t] = "idle"
    /\ emitted < MaxEvents
    /\ cbPc' = [cbPc EXCEPT ![t] = "lock"]
    /\ cbEv' = [cbEv EXCEPT ![t] = k]
    /\ emitted' = emitted + 1
    /\ UNCHANGED <<config, clock, pc, regIdx, clientVars, activity, syncVars,
                   events, lock, arrival, consumed, drainLog>>

\* line 110: events.lock()
cb_lock(t) ==
    /\ cbPc[t] = "lock"
    /\ lock = 0
    /\ lock' = t
    /\ arrival' = Append(arrival, cbEv[t])
    /\ cbPc' = [cbPc EXCEPT ![t] = "push"]
    /\ UNCHANGED <<config, clock, pc, regIdx, clientVars, activity, syncVars,
                   events, cbEv, emitted, consumed, drainLog>>

\* a variant that pushes at the head
push_front(q, e) == <<e>> \o q

\* VecDeque::push_back
push_back(q, e) == Append(q, e)

\* a variant that reaches the queue through a mutable access to the resource
cb_push_marks_changed(t) ==
    /\ cbPc[t] = "push"
    /\ lock = t
    /\ events' = Append(events, cbEv[t])
    /\ lock' = 0
    /\ cbPc' = [cbPc EXCEPT ![t] = "log"]
    /\ drainLog' = <<>>
    /\ changed' = TRUE
    /\ UNCHANGED <<config, clock, pc, regIdx, clientVars, activity, muts, syncDone,
                   ran, lastRun, failedPending, kept, cbEv, arrival, emitted,
                   consumed>>

\* a variant that keeps the guard past the statement
cb_push_hold(t) ==
    /\ cbPc[t] = "push"
    /\ lock = t
    /\ events' = Append(events, cbEv[t])
    /\ cbPc' = [cbPc EXCEPT ![t] = "log"]
    /\ drainLog' = <<>>
    /\ UNCHANGED <<config, clock, pc, regIdx, clientVars, activity, syncVars,
                   lock, cbEv, arrival, emitted, consumed>>

\* a variant that stores the event in place of the queue's content
cb_push_overwrite(t) ==
    /\ cbPc[t] = "push"
    /\ lock = t
    /\ events' = <<cbEv[t]>>
    /\ lock' = 0
    /\ cbPc' = [cbPc EXCEPT ![t] = "log"]
    /\ drainLog' = <<>>
    /\ UNCHANGED <<config, clock, pc, regIdx, clientVars, activity, syncVars,
                   cbEv, arrival, emitted, consumed>>

\* line 110: the push, and the guard dropped at the end of the statement
cb_push(t) ==
    /\ cbPc[t] = "push"
    /\ lock = t
    /\ events' = push_back(events, cbEv[t])
    /\ lock' = 0
    /\ cbPc' = [cbPc EXCEPT ![t] = "log"]
    /\ drainLog' = <<>>
    /\ UNCHANGED <<config, clock, pc, regIdx, clientVars, activity, syncVars,
                   cbEv, arrival, emitted, consumed>>

\* line 111: debug!
cb_log(t) ==
    /\ cbPc[t] = "log"
    /\ cbPc' = [cbPc EXCEPT ![t] = "idle"]
    /\ UNCHANGED <<config, clock, pc, regIdx, clientVars, activity, syncVars,
                   events, lock, cbEv, arrival, emitted, consumed, drainLog>>

\* ------------------------------------------------- the foreground consumer

\* EventQueue drain (spec 4.1): under the lock, every queued event is removed
\* and returned in order, and the queue is left empty
drain ==
    /\ pc = "done"
    /\ lock = 0
    /\ Len(drainLog) < MaxDrains
    /\ events' = <<>>
    /\ consumed' = consumed \o events
    /\ drainLog' = Append(drainLog, events)
    /\ UNCHANGED <<config, clock, pc, regIdx, clientVars, activity, syncVars,
                   lock, cbPc, cbEv, arrival, emitted>>

Next ==
    \/ startup_seed
    \/ startup_register
    \/ startup_registered
    \/ startup_start
    \/ \E f \in AppFields : \E v \in FieldValues(f) : update_presence(f, v)
    \/ check_activity_changed
    \/ next_tick
    \/ \E t \in Threads : \E k \in EventKinds : emit(t, k)
    \/ \E t \in Threads : cb_lock(t)
    \/ \E t \in Threads : cb_push(t)
    \/ \E t \in Threads : cb_log(t)

Spec == Init /\ [][Next]_vars

\* the plugin in an application whose systems consume the lifecycle events
\* and leave the payload alone
NextConsumer ==
    \/ startup_seed
    \/ startup_register
    \/ startup_registered
    \/ startup_start
    \/ check_activity_changed
    \/ next_tick
    \/ \E t \in Threads : \E k \in EventKinds : emit(t, k)
    \/ \E t \in Threads : cb_lock(t)
    \/ \E t \in Threads : cb_push(t)
    \/ \E t \in Threads : cb_log(t)
    \/ drain

SpecConsumer == Init /\ [][NextConsumer]_vars

\* scheduling: the startup schedule and the Update schedule keep running
\* their systems, a background thread keeps running its callback, and a
\* thread waiting for the mutex gets it once it is free often enough
Fairness ==
    /\ WF_vars(startup_seed)
    /\ WF_vars(startup_register)
    /\ WF_vars(startup_registered)
    /\ WF_vars(startup_start)
    /\ WF_vars(check_activity_changed)
    /\ WF_vars(next_tick)
    /\ \A t \in Threads : SF_vars(cb_lock(t))
    /\ \A t \in Threads : WF_vars(cb_push(t))
    /\ \A t \in Threads : WF_vars(cb_log(t))

SpecLive == Init /\ [][NextConsumer]_vars /\ Fairness

\* ------------------------------------------------------------ properties

\* a step that is one run of check_activity_changed
SyncStep == ~syncDone /\ syncDone'

\* the fields populated in the Activity of the call of the given run
Populated(run) == {f \in Fields : run.act[1][f] # None}

TypeOK ==
    /\ pc \in {"seed", "register", "start", "done", "panicked"}
    /\ regIdx \in 1..(Len(EventVariants) + 1)
    /\ muts \in 0..MaxMuts
    /\ emitted \in 0..MaxEvents
    /\ lock \in Threads \cup {0}
    /\ kept \subseteq Fields
    /\ lastRun.issued \in {0, 1}

\* C1 (dirty-coalescing): a run of check_activity_changed that finds N >= 1
\* mutable accesses to the payload since the run before issues exactly one
\* set_activity call, and the call carries the payload as it is at that run.
C1_DirtyCoalescing ==
    [][(SyncStep /\ muts >= 1) =>
         /\ lastRun'.issued = 1
         /\ lastRun'.act = Some(into(activity))]_vars

\* a run that found two writes, the first of them overwritten by the second,
\* issued one call with the final value
C1_Witness ==
    /\ ran
    /\ lastRun.issued = 1
    /\ lastRun.n = 2
    /\ syncDone
    /\ muts = 0
    /\ lastRun.act = Some(into(activity))
    /\ activity["details"] = Some("Goodbye")
    /\ activity["state"] = None
    /\ ~config.show_time

\* C2 (no-change-no-call): a run of check_activity_changed, other than the
\* first, that finds no mutable access to the payload since the run before
\* issues no set_activity call, whatever the result of the call before and
\* whatever events arrived.
C2_NoChangeNoCall ==
    [][(SyncStep /\ ran /\ muts = 0) =>
         /\ lastRun'.issued = 0
         /\ lastRun'.act = None]_vars

\* a run that issued no call, after a failed call and with events queued
C2_Witness ==
    /\ ran
    /\ syncDone
    /\ lastRun.issued = 0
    /\ lastRun.n = 0
    /\ failedPending
    /\ Len(events) = MaxEvents
\* C3 (queue order preservation): the queue holds exactly the events whose
\* pushes acquired the lock, in the order of acquisition (the holder's event
\* is the one still to be appended): nothing lost, duplicated or reordered.
C3_QueueOrder ==
    /\ arrival = events \o (IF lock # 0 THEN <<cbEv[lock]>> ELSE <<>>)
    /\ Len(arrival) + Cardinality({t \in Threads : cbPc[t] = "lock"}) = emitted
    /\ \A t \in Threads : (lock = t) <=> (cbPc[t] = "push")

\* two callbacks ran at the same time with different kinds and both pushed
C3_Witness ==
    /\ cbPc[1] = "log"
    /\ cbPc[2] = "log"
    /\ cbEv[1] # cbEv[2]
    /\ events = <<cbEv[2], cbEv[1]>>
    /\ arrival = events

\* C4 (update failure isolation): a failed set_activity call is reported once
\* and nothing else: one call in that run, no panic, the resource no longer
\* counts as changed; and the next run issues a call if and only if the
\* payload was written since, as after a successful call.
C4_FailureIsolation ==
    [][/\ (SyncStep /\ lastRun'.result = "Err") =>
             /\ lastRun'.issued = 1
             /\ lastRun'.reported = 1
             /\ ~changed'
             /\ pc' = "done"
       /\ (SyncStep /\ lastRun.result = "Err") =>
             ((lastRun'.issued = 1) <=> (muts > 0))
       /\ (lastRun.result = "Err" /\ ~SyncStep) =>
             (lastRun' = lastRun /\ pc' = "done")]_vars

\* a failed call was reported, the next tick has begun and a write made
\* since is waiting for the next run
C4_Witness ==
    /\ pc = "done"
    /\ lastRun.result = "Err"
    /\ lastRun.reported = 1
    /\ ~syncDone
    /\ muts = 1
    /\ changed
    /\ ~failedPending

\* whole seconds: s is the number of whole seconds in ms milliseconds
WholeSeconds(s, ms) == s * 1000 <= ms /\ ms < (s + 1) * 1000

\* C5 (timestamp seeding): once startup_client is past its seeding step, with
\* show_time the payload has timestamps.start equal to the clock reading in
\* whole seconds since the epoch and timestamps.end unset; without show_time
\* timestamps is unset and the clock was not read.
C5_TimestampSeeding ==
    pc \in {"register", "start", "done"} =>
        IF config.show_time
        THEN /\ clock # None
             /\ activity["timestamps"] # None
             /\ activity["timestamps"][1].start # None
             /\ WholeSeconds(activity["timestamps"][1].start[1], clock[1])
             /\ activity["timestamps"][1].end = None
        ELSE /\ activity["timestamps"] = None
             /\ clock = None

\* startup has completed with show_time and a clock reading that is not a
\* whole number of seconds
C5_Witness ==
    /\ pc = "done"
    /\ config.show_time
    /\ clock = Some(2750)
    /\ activity["timestamps"] = Some([start |-> Some(2), end |-> None])

\* C6 (startup ordering): start() is invoked at most once, and exactly once
\* when startup_client has completed; when it is invoked every event kind of
\* the closed set has exactly one callback registered, so a started
\* connection has a callback for every kind it can emit.
C6_StartupOrdering ==
    /\ started <= 1
    /\ (started = 1) <=> (pc = "done")
    /\ \A k \in EventKinds : handlers[k] <= 1
    /\ pc \in {"start", "done"} => \A k \in EventKinds : handlers[k] = 1
    /\ started > 0 => startedWith = EventKinds
    /\ \A t \in Threads : cbPc[t] # "idle" => (started = 1 /\ handlers[cbEv[t]] = 1)

\* the started connection has emitted an event of the last kind registered
C6_Witness ==
    /\ pc = "done"
    /\ started = 1
    /\ startedWith = EventKinds
    /\ \E t \in Threads : cbPc[t] # "idle" /\ cbEv[t] = EventVariants[Len(EventVariants)]

\* C7 (call at startup): the first run of check_activity_changed issues a
\* set_activity call even when nothing wrote the payload and show_time is
\* false; a later run issues a call only when the payload was written since
\* the run before.
C7_FirstRunCalls ==
    [][/\ (SyncStep /\ ~ran) => (lastRun'.issued = 1 /\ lastRun'.act # None)
       /\ (SyncStep /\ ran /\ lastRun'.issued = 1) => muts > 0]_vars

\* the first run issued a call for an untouched default payload
C7_Witness ==
    /\ ran
    /\ ~config.show_time
    /\ lastRun.issued = 1
    /\ lastRun.n = 0
    /\ lastRun.act = Some(ActivityNew)
    /\ activity = ActivityStateDefault
\* C8 as stated (never unset): a field populated in one set_activity call is
\* populated in the next call issued, whatever the application wrote between.
C8_NeverUnset ==
    [][(SyncStep /\ lastRun.issued = 1 /\ lastRun'.issued = 1) =>
         Populated(lastRun) \subseteq Populated(lastRun')]_vars

\* C8 as amended: a field populated in an earlier set_activity call is
\* populated in every later call issued while the application has not
\* assigned None to it since; the update is built from the payload alone, so
\* a field reset to None is unset in the next call.
C8_KeptUnlessReset ==
    [][(SyncStep /\ lastRun'.issued = 1) =>
         /\ kept \subseteq Populated(lastRun')
         /\ \A f \in Fields : activity[f] = None => f \notin Populated(lastRun')]_vars

\* a run that found one write issued a call with both application fields
\* populated: one of them was sent by an earlier call and is still there,
\* the other was overwritten or added
C8_Witness ==
    /\ ran
    /\ syncDone
    /\ lastRun.issued = 1
    /\ lastRun.n = 1
    /\ lastRun.act[1]["details"] = Some("Goodbye")
    /\ lastRun.act[1]["state"] # None
    /\ kept = {"details", "state"}

\* C9 (field omission): the Activity of a set_activity call has exactly the
\* populated fields of the payload, with the payload's values, and every
\* other field unset.
C9_FieldOmission ==
    [][(SyncStep /\ lastRun'.issued = 1) =>
         \A f \in Fields :
            IF activity[f] # None
            THEN lastRun'.act[1][f] = Some(activity[f][1])
            ELSE lastRun'.act[1][f] = None]_vars

\* a call for a payload with only details set: details set, the rest unset
C9_Witness ==
    /\ lastRun.issued = 1
    /\ activity = [ActivityStateDefault EXCEPT !["details"] = Some("Hello World")]
    /\ muts = 0
    /\ lastRun.act[1]["details"] = Some("Hello World")
    /\ \A f \in Fields \ {"details"} : lastRun.act[1][f] = None

\* C10 (no retry): while the latest set_activity call has failed and the
\* payload has not been written since, the resource does not count as changed
\* and no run of check_activity_changed issues a call.
C10_NoRetry ==
    [][failedPending =>
         /\ ~changed
         /\ muts = 0
         /\ SyncStep => (lastRun'.issued = 0 /\ failedPending')]_vars

\* a run after a failed call issued nothing, and the failed payload is
\* still the payload
C10_Witness ==
    /\ failedPending
    /\ ran
    /\ syncDone
    /\ lastRun.issued = 0
    /\ lastRun.result = "none"
    /\ activity["details"] # None
\* the event a callback holding the lock is about to append
Holder == IF lock # 0 THEN <<cbEv[lock]>> ELSE <<>>

\* C11 (drain): a drain removes and returns every queued event in order and
\* leaves the queue empty, so a drain that follows a drain with no push
\* between them returns the empty sequence; and with pushes running beside
\* the drains, what the drains returned followed by what is queued is
\* exactly the pushed events in order: none lost, none returned twice.
C11_DrainAtomic ==
    /\ consumed \o events \o Holder = arrival
    /\ drainLog # <<>> => events = <<>>
    /\ \A i \in 2..Len(drainLog) : drainLog[i] = <<>>

\* two drains in a row with no push between them: the first returned both
\* pushed events in order and the second nothing
C11_Witness ==
    /\ Len(drainLog) = 2
    /\ Len(drainLog[1]) = 2
    /\ drainLog[1][1] # drainLog[1][2]
    /\ drainLog[2] = <<>>
    /\ consumed = drainLog[1]
    /\ events = <<>>

\* C12 (fatal clock error): startup_client panics exactly when show_time is
\* true and the clock reading is before the epoch; it panics at the seeding
\* step, with no callback registered, start() not invoked and no run of the
\* sync routine; with show_time false the clock is not read and there is no
\* panic.
C12_FatalClock ==
    /\ (pc = "panicked") <=> (clock # None /\ clock[1] < 0)
    /\ pc = "panicked" =>
          /\ config.show_time
          /\ \A k \in EventKinds : handlers[k] = 0
          /\ started = 0
          /\ ~ran
          /\ activity = ActivityStateDefault
    /\ ~config.show_time => (clock = None /\ pc # "panicked")

\* the startup routine has panicked on a clock before the epoch
C12_Witness ==
    /\ pc = "panicked"
    /\ config.show_time
    /\ clock = Some(-1500)
    /\ regIdx = 1
    /\ started = 0
\* C13 (start() is fire-and-forget): whatever start() returns, startup_client
\* completes, nothing is reported and nothing about the sync routine changes;
\* after a failed start() a run of check_activity_changed issues a call
\* exactly when the resource counts as changed (its first run, or a write
\* since the run before), as after a successful one.
C13_StartFireAndForget ==
    [][/\ pc = "start" =>
             /\ pc' = "done"
             /\ startResult' \in {"Ok", "Err"}
             /\ <<activity, changed, muts, lastRun>>' = <<activity, changed, muts, lastRun>>
       /\ (SyncStep /\ startResult = "Err") =>
             ((lastRun'.issued = 1) <=> (~ran \/ muts > 0))]_vars

\* start() failed, startup completed, and a later run of the sync routine
\* issued a call for a write
C13_Witness ==
    /\ startResult = "Err"
    /\ pc = "done"
    /\ started = 1
    /\ ran
    /\ lastRun.issued = 1
    /\ lastRun.n = 2
    /\ activity["state"] # None
\* C14 (deadlock freedom of the event bridge): the mutex of the queue is
\* held only by a callback between its lock and its push, never by a
\* callback that is logging and never by the foreground across a step; under
\* fair scheduling every callback invocation completes, every tick runs the
\* sync routine and every tick ends.
C14_NoDeadlock ==
    /\ [](\A t \in Threads : cbPc[t] = "log" => lock # t)
    /\ [](lock # 0 => cbPc[lock] = "push")
    /\ \A t \in Threads : (cbPc[t] # "idle") ~> (cbPc[t] = "idle")
    /\ (pc = "done" /\ ~syncDone) ~> syncDone
    /\ syncDone ~> ~syncDone

\* a callback waits for the mutex that the other callback holds, in the
\* middle of a tick
C14_Witness ==
    /\ pc = "done"
    /\ lock = 1
    /\ cbPc[1] = "push"
    /\ cbPc[2] = "lock"
    /\ ran
    /\ ~syncDone
\* C15 as stated (the sync routine consumes): after a run of
\* check_activity_changed the events that were queued before it are no
\* longer in the queue.
C15_SyncConsumes ==
    [][SyncStep => events' = <<>>]_vars

\* C15 as amended: a run of check_activity_changed leaves the queue as it
\* is, so the events queued before the run are still queued after it; the
\* queue changes only by a callback appending its event and by a drain of
\* the foreground consumer, which removes all of it.
C15_OnlyDrainConsumes ==
    [][/\ SyncStep => (events' = events /\ consumed' = consumed)
       /\ events' # events =>
             \/ \E t \in Threads :
                   /\ cbPc[t] = "push"
                   /\ cbPc'[t] = "log"
                   /\ events' = Append(events, cbEv[t])
             \/ /\ events' = <<>>
                /\ consumed' = consumed \o events
                /\ syncDone' = syncDone]_vars

\* the sync routine has run at least twice, every emitted event is still
\* queued and nothing was consumed
C15_Witness ==
    /\ ran
    /\ syncDone
    /\ lastRun.issued = 0
    /\ Len(events) = MaxEvents
    /\ consumed = <<>>
    /\ \A t \in Threads : cbPc[t] = "idle"
\* C16 (no change is lost, whatever the order in a tick): a write waits for
\* a sync run with the resource counted as changed, whether it was made
\* before or after the sync run of its tick; the end of a tick, which comes
\* only after the sync run of that tick, leaves the pending writes and the
\* changed mark as they are; and the run that finds pending writes issues a
\* call that carries the payload with them.
C16_NoChangeLost ==
    [][/\ muts > 0 => changed
       /\ muts' > muts => changed'
       /\ (syncDone /\ ~syncDone') =>
             (changed' = changed /\ muts' = muts /\ activity' = activity)
       /\ (SyncStep /\ muts > 0) =>
             /\ lastRun'.issued = 1
             /\ \A f \in Fields : lastRun'.act[1][f] = activity[f]
             /\ muts' = 0]_vars

\* the sync run of this tick issued a call without state, and a write made
\* after it in the same tick set state: the write is pending and the
\* resource counts as changed
C16_Witness ==
    /\ ran
    /\ syncDone
    /\ changed
    /\ muts = 1
    /\ activity["state"] # None
    /\ lastRun.issued = 1
    /\ lastRun.act[1]["state"] = None
\* a step of a lifecycle callback
CallbackStep == cbPc' # cbPc

\* C17 (a lifecycle event causes no update): a step of a callback changes
\* nothing of the payload, of its changed mark or of the record of the sync
\* runs; a run of check_activity_changed changes neither the payload nor the
\* queue nor any callback; and a run that finds the queue holding events but
\* no write since the run before issues no call.
C17_EventsCauseNoUpdate ==
    [][/\ CallbackStep =>
             /\ activity' = activity
             /\ changed' = changed
             /\ muts' = muts
             /\ lastRun' = lastRun
             /\ syncDone' = syncDone
       /\ SyncStep =>
             /\ activity' = activity
             /\ events' = events
             /\ arrival' = arrival
             /\ lock' = lock
             /\ cbPc' = cbPc
       /\ (SyncStep /\ ran /\ muts = 0 /\ arrival # <<>>) =>
             lastRun'.issued = 0]_vars

\* nothing ever wrote the payload, so the only call was the one of the first
\* run; both events have been pushed, their callbacks are at the log, and
\* the latest run issued nothing
C17_Witness ==
    /\ ran
    /\ syncDone
    /\ lastRun.issued = 0
    /\ lastRun.n = 0
    /\ ~config.show_time
    /\ activity = ActivityStateDefault
    /\ kept = {}
    /\ ~failedPending
    /\ Len(events) = MaxEvents
    /\ \A t \in Threads : cbPc[t] = "log"

\* C18 (no update before start): when check_activity_changed has run, or a
\* set_activity call was issued, startup_client has completed: its callbacks
\* are registered and start() was invoked once.
C18_NoCallBeforeStart ==
    (ran \/ syncDone \/ lastRun.issued = 1) =>
        /\ pc = "done"
        /\ started = 1
        /\ startResult # "none"
        /\ \A k \in EventKinds : handlers[k] = 1

\* the first run of the sync routine has issued its call, after start()
C18_Witness ==
    /\ ran
    /\ syncDone
    /\ lastRun.issued = 1
    /\ lastRun.n = 0
    /\ started = 1
    /\ startResult = "Ok"
    /\ emitted = 0

\* C19 (change detection is by mutable access): a write that leaves the
\* payload as it was still marks the resource changed, and the next run
\* then issues a call; when the call of the run before carried the same
\* payload, the new call carries an identical Activity.
C19_ChangedByAccess ==
    [][/\ (muts' = muts + 1 /\ activity' = activity) => changed'
       /\ (SyncStep /\ muts > 0 /\ lastRun.issued = 1
             /\ lastRun.act = Some(into(activity))) =>
             /\ lastRun'.issued = 1
             /\ lastRun'.act = lastRun.act]_vars

\* one write since the run whose call carried the payload, and the payload
\* is still the one carried: the write stored the value the field held, and
\* the resource counts as changed
C19_Witness ==
    /\ pc = "done"
    /\ ran
    /\ muts = 1
    /\ changed
    /\ lastRun.issued = 1
    /\ lastRun.act = Some(into(activity))
    /\ activity["details"] = Some("Hello World")
    /\ activity["state"] = Some("This is state")

====
